---- MODULE Spec2Model ----
(***************************************************************************)
(* A model of the FrankenStrings engine (frankenstrings.py): the decoders  *)
(* decode_bu / decode_encoded_udata, the base64 pipeline b64 /             *)
(* base64_results, the ASCII-hex pipeline unhexlify_ascii / hex_results,   *)
(* the carver pe_dump / embedded_pe_results, the XOR orchestration         *)
(* bbcrack_results and the orchestrator execute.                           *)
(*                                                                         *)
(* Text (encoded candidates, type strings) is a sequence of one-character  *)
(* strings.  Decoded bytes are sequences of numbers 0..255 where a claim   *)
(* reads their values (decode_bu) and records of the measures the code     *)
(* takes of them (length, unique-byte count, ...) elsewhere.  SHA-256 is   *)
(* taken to be injective: the hash of a content is the content itself.     *)
(***************************************************************************)
EXTENDS Integers, Sequences, FiniteSets, TLC

VARIABLES
    pc,        \* the position of execute: the pipeline that runs next
    solo,      \* TRUE when one pipeline is called on its own, not by execute
    sample,    \* request.file_contents, file_type and deep_scan, as measured
    files,     \* the files of working_directory: records [name, data]
    extracted, \* request.add_extracted calls so far: records [name, data, msg]
    result,    \* request.result: [sections, tags]
    loc,       \* the local variables of the pipeline that is running
    call,      \* the last call of pe_dump / b64 / unhexlify_ascii /
               \* decode_encoded_udata: arguments, collaborator answers, return
    bu         \* one call of decode_bu: its arguments and its return value

vars == <<pc, solo, sample, files, extracted, result, loc, call, bu>>

engine == <<pc, solo, sample, files, extracted, result, loc, call>>

\* ------------------------------------------------------------------ text

Min(a, b) == IF a < b THEN a ELSE b

\* Python's s[a:b] for 0 <= a <= b (indices past the end are clamped)
Slice(s, a, b) == SubSeq(s, a + 1, Min(b, Len(s)))

\* Python's s[a:]
SliceFrom(s, a) == SubSeq(s, a + 1, Len(s))

RECURSIVE Concat(_)
Concat(ss) == IF ss = <<>> THEN <<>> ELSE Head(ss) \o Concat(Tail(ss))

HexChars == <<"0", "1", "2", "3", "4", "5", "6", "7", "8", "9",
              "a", "b", "c", "d", "e", "f", "A", "B", "C", "D", "E", "F">>

IsHex(c) == \E i \in 1..Len(HexChars) : HexChars[i] = c

HexVal(c) ==
    LET i == CHOOSE j \in 1..Len(HexChars) : HexChars[j] = c
    IN  IF i <= 16 THEN i - 1 ELSE i - 7

HEXENC_STRINGS == << <<"\\", "u">>, <<"%", "u">>, <<"\\", "x">>,
                     <<"0", "x">>, <<"&", "H">> >>

\* ------------------------------------------------------------ decode_bu

a2b_hexLowDigit(s) ==
    IF Len(s) % 2 = 0 /\ \A i \in 1..Len(s) : IsHex(s[i])
    THEN [ok |-> TRUE,
          bytes |-> [i \in 1..(Len(s) \div 2) |-> HexVal(s[2 * i])]]
    ELSE [ok |-> FALSE, bytes |-> <<>>]

\* binascii.a2b_hex: an error on an odd length or a non-hex digit
a2b_hex(s) ==
    IF Len(s) % 2 = 0 /\ \A i \in 1..Len(s) : IsHex(s[i])
    THEN [ok |-> TRUE,
          bytes |-> [i \in 1..(Len(s) \div 2) |->
                        16 * HexVal(s[2 * i - 1]) + HexVal(s[2 * i])]]
    ELSE [ok |-> FALSE, bytes |-> <<>>]

\* The pairs one iteration of the loop for `size` reads, in the order it
\* appends them: data[size:size+2], data[size-2:size], ..., data[2:4]
WordPairsNoSwap(data, size) ==
    [k \in 1..(size \div 2) |-> a2b_hex(Slice(data, 2 * k, 2 * k + 2))]

WordPairs(data, size) ==
    [k \in 1..(size \div 2) |->
        a2b_hex(Slice(data, size - 2 * (k - 1), size - 2 * (k - 1) + 2))]

RECURSIVE decode_bu_loop(_, _, _)
decode_bu_loop(data, size, decoded) ==
    IF data = <<>> THEN [ok |-> TRUE, bytes |-> decoded]
    ELSE LET ps == WordPairs(data, size)
         IN  IF \E k \in 1..Len(ps) : ~ps[k].ok
             THEN [ok |-> FALSE, bytes |-> <<>>]
             ELSE decode_bu_loop(SliceFrom(data, size + 2), size,
                                 decoded \o Concat([k \in 1..Len(ps) |-> ps[k].bytes]))

decode_bu(data, size) ==
    IF size \in {2, 4, 8, 16}
    THEN decode_bu_loop(data, size, <<>>)
    ELSE [ok |-> TRUE, bytes |-> <<>>]

\* ------------------------------------------------- decode_bu: its inputs

MaxWords == 2
MaxSeed == 3

\* A word of `size` hex digits; the seed varies the digits so that every
\* pair of a word differs from its neighbours
WordDigits(seed, size) ==
    [i \in 1..size |-> HexChars[((seed * 5 + i * 3) % Len(HexChars)) + 1]]

\* What the recognizer (encoding + hexdigits{size})+ matches
RunText(encoding, size, seeds) ==
    Concat([w \in 1..Len(seeds) |-> encoding \o WordDigits(seeds[w], size)])

SeedSeqs == UNION {[1..n -> 0..MaxSeed] : n \in 1..MaxWords}

NoSample ==
    [type |-> <<>>, size |-> 0, deep_scan |-> FALSE,
     mzAt |-> {}, peAt |-> {}, dosAt |-> {}, strs |-> {}, hes |-> {}]

NoCall == [fn |-> "none"]

NoLoc == [fn |-> "none"]

NoResult == [sections |-> {}, tags |-> {}]

EngineIdle ==
    /\ pc = "idle"
    /\ solo = TRUE
    /\ sample = NoSample
    /\ files = {}
    /\ extracted = <<>>
    /\ result = NoResult
    /\ loc = NoLoc
    /\ call = NoCall

BuIdle == [pc |-> "idle"]

BuInit ==
    /\ EngineIdle
    /\ \E e \in 1..Len(HEXENC_STRINGS), size \in {16, 8, 4, 2}, seeds \in SeedSeqs :
        bu = [pc |-> "call", encoding |-> HEXENC_STRINGS[e], size |-> size,
              seeds |-> seeds,
              data |-> RunText(HEXENC_STRINGS[e], size, seeds),
              ret |-> [ok |-> TRUE, bytes |-> <<>>]]

DecodeBu ==
    /\ bu.pc = "call"
    /\ bu' = [bu EXCEPT !.pc = "ret", !.ret = decode_bu(bu.data, bu.size)]
    /\ UNCHANGED engine

SpecBU == BuInit /\ [][DecodeBu]_vars

\* ------------------------------------------------ unicode_longest_string

RunMinLen == 50
RunPrefixLen == 200

\* max(lisdata, key=len): the first of the longest
LongestOf(lisdata) ==
    lisdata[CHOOSE i \in 1..Len(lisdata) :
                \A j \in 1..Len(lisdata) :
                    /\ Len(lisdata[j]) <= Len(lisdata[i])
                    /\ j < i => Len(lisdata[j]) < Len(lisdata[i])]

unicode_longest_stringAll(lisdata) == Concat(lisdata)

unicode_longest_string(lisdata) ==
    LET maxstr == Len(LongestOf(lisdata))
    IN  IF \A i \in 1..Len(lisdata) : Len(lisdata[i]) = maxstr
        THEN Concat(lisdata)
        ELSE IF maxstr > RunMinLen THEN LongestOf(lisdata)
        ELSE <<>>

\* What decode_encoded_udata appends to decoded_list for one word size, from
\* the runs re.findall gave for it
DecodedOfRuns(lisdata, size) ==
    IF Len(lisdata) > 0
    THEN LET lstr == unicode_longest_string(lisdata)
         IN  IF Len(lstr) > RunMinLen
             THEN << <<decode_bu(lstr, size), Slice(lstr, 0, RunPrefixLen)>> >>
             ELSE <<>>
    ELSE <<>>

MaxRunWords == 3
MaxRuns == 2

\* The runs of 1..MaxRunWords words, of two contents
RunsOf(encoding, size) ==
    {RunText(encoding, size, [i \in 1..n |-> seed]) :
        n \in 1..MaxRunWords, seed \in {0, 1}}

InitRuns ==
    /\ EngineIdle
    /\ \E e \in {1, 3}, size \in {16, 8} :
       \E lisdata \in UNION {[1..n -> RunsOf(HEXENC_STRINGS[e], size)] : n \in 1..MaxRuns} :
          bu = [pc |-> "runs", size |-> size, lisdata |-> lisdata,
                lstr |-> <<>>, decoded_list |-> <<>>]

\* The lines of decode_encoded_udata for one word size
SelectRun ==
    /\ bu.pc = "runs"
    /\ bu' = [bu EXCEPT !.pc = "selected",
                        !.lstr = unicode_longest_string(bu.lisdata),
                        !.decoded_list = DecodedOfRuns(bu.lisdata, bu.size)]
    /\ UNCHANGED engine

SpecRuns == InitRuns /\ [][SelectRun]_vars

\* Whether text is the runs of lisdata one after the other
RECURSIVE IsChain(_, _)
IsChain(text, lisdata) ==
    IF lisdata = <<>> THEN text = <<>>
    ELSE /\ Len(text) >= Len(Head(lisdata))
         /\ SubSeq(text, 1, Len(Head(lisdata))) = Head(lisdata)
         /\ IsChain(SubSeq(text, Len(Head(lisdata)) + 1, Len(text)), Tail(lisdata))

SameLengths(lisdata) ==
    \A i, j \in 1..Len(lisdata) : Len(lisdata[i]) = Len(lisdata[j])

\* C11: of the runs of one word size, the representative is all of them one
\* after the other, in the order found, when they have the same length;
\* otherwise the longest run alone when it is longer than 50; otherwise
\* nothing.  (A representative of 50 characters or fewer is not decoded.)
C11_RepresentativeOfRuns ==
    bu.pc = "selected" =>
        LET runs == bu.lisdata
            longest == {i \in 1..Len(runs) : \A j \in 1..Len(runs) :
                                                Len(runs[j]) <= Len(runs[i])}
        IN  /\ SameLengths(runs) => IsChain(bu.lstr, runs)
            /\ (~SameLengths(runs) /\ \E i \in longest : Len(runs[i]) > 50) =>
                  \E i \in longest : bu.lstr = runs[i]
            /\ (~SameLengths(runs) /\ \A i \in longest : Len(runs[i]) <= 50) =>
                  bu.lstr = <<>>
            /\ bu.decoded_list # <<>> <=> Len(bu.lstr) > 50

C11_Witness ==
    /\ bu.pc = "selected"
    /\ Len(bu.lisdata) = 2
    /\ Len(bu.lisdata[1]) < Len(bu.lisdata[2])
    /\ bu.lstr = bu.lisdata[2]
    /\ bu.decoded_list # <<>>

\* --------------------------------------------------------- byte buffers

\* A run of bytes is named by where it comes from: `len` bytes at `off` of
\* the source `src`.  b'' (and None, equally falsy) is EmptyBuf.
EmptyBuf == [src |-> "empty", off |-> 0, len |-> 0]

Buf(src, off, len) ==
    IF len <= 0 THEN EmptyBuf ELSE [src |-> src, off |-> off, len |-> len]

\* b[a:]
BufFrom(b, a) == Buf(b.src, b.off + a, b.len - a)

\* b[0:n]
BufPrefix(b, n) == Buf(b.src, b.off, Min(n, b.len))

sha256(x) == x

\* A file name made of a fixed part and of a hash (or of the numbers of a hit)
FileName(tag, key) == [tag |-> tag, key |-> key]

\* open(path, 'wb').write(data): a file of that name is replaced
WriteFile(fs, name, data) ==
    {f \in fs : f.name # name} \cup {[name |-> name, data |-> data]}

add_extracted(ex, name, data, msg) ==
    Append(ex, [name |-> name, data |-> data, msg |-> msg])

\* -------------------------------------------------------------- pe_dump

MaxSections == 2

ParseFail == [ok |-> FALSE, sections |-> <<>>]

\* pefile.PE(data=pedata): it raises, or gives the section table
ParseOutcomes(pedata) ==
    IF pedata = EmptyBuf THEN {ParseFail}
    ELSE {ParseFail} \cup
         {[ok |-> TRUE, sections |-> ss] :
             ss \in UNION {[1..n -> [PointerToRawData : {0, 512},
                                      SizeOfRawData : {0, 4096}]] :
                           n \in 0..MaxSections}}

RECURSIVE LSize(_, _)
LSize(sections, lsize) ==
    IF sections = <<>> THEN lsize
    ELSE LET size == Head(sections).PointerToRawData + Head(sections).SizeOfRawData
         IN  LSize(Tail(sections), IF size > lsize THEN size ELSE lsize)

PeExtractWholeOnZero(pedata, parse, fail_on_except) ==
    IF parse.ok /\ LSize(parse.sections, 0) > 0
    THEN BufPrefix(pedata, LSize(parse.sections, 0))
    ELSE pedata

PeExtract(pedata, parse, fail_on_except) ==
    IF parse.ok
    THEN IF LSize(parse.sections, 0) > 0
         THEN BufPrefix(pedata, LSize(parse.sections, 0))
         ELSE IF ~fail_on_except THEN pedata ELSE EmptyBuf
    ELSE IF ~fail_on_except THEN pedata ELSE EmptyBuf

\* pe_dump on the file temp_file holds, given the parser's answer and whether
\* the write of the carved file succeeds.  The finally block returns, so an
\* error of open, mmap or the write is swallowed.
pe_dump(fs, ex, caller, temp_file, offset, fn, msg, fail_on_except, parse, writeOk) ==
    LET tf == {f \in fs : f.name = temp_file}
        mm == IF tf = {} THEN EmptyBuf ELSE (CHOOSE f \in tf : TRUE).data
        opened == mm # EmptyBuf
        pedata == BufFrom(mm, offset)
        pe_extract == IF opened THEN PeExtract(pedata, parse, fail_on_except)
                      ELSE EmptyBuf
        pe_file_name == FileName(fn, sha256(pe_extract))
        stored == pe_extract # EmptyBuf /\ writeOk
    IN  [files |-> IF stored THEN WriteFile(fs, pe_file_name, pe_extract) ELSE fs,
         extracted |-> IF stored
                       THEN add_extracted(ex, pe_file_name, pe_extract, msg)
                       ELSE ex,
         call |-> [fn |-> "pe_dump", caller |-> caller, buffer |-> mm,
                   offset |-> offset, fail_on_except |-> fail_on_except,
                   parse |-> IF opened THEN parse ELSE ParseFail,
                   pedata |-> pedata, pe_extract |-> pe_extract,
                   writeOk |-> writeOk, stored |-> stored,
                   ret |-> pe_extract # EmptyBuf]]

\* ------------------------------------------------------------- the sample

T_office == <<"d", "o", "c", "u", "m", "e", "n", "t", "/", "o", "f", "f", "i", "c", "e", "/", "w", "o", "r", "d">>
T_pdf == <<"d", "o", "c", "u", "m", "e", "n", "t", "/", "p", "d", "f">>
T_code == <<"c", "o", "d", "e", "/", "j", "a", "v", "a", "s", "c", "r", "i", "p", "t">>
T_exe == <<"e", "x", "e", "c", "u", "t", "a", "b", "l", "e", "/", "w", "i", "n", "d", "o", "w", "s", "/", "p", "e", "3", "2">>
T_archive == <<"a", "r", "c", "h", "i", "v", "e", "/", "z", "i", "p">>
T_text == <<"t", "e", "x", "t", "/", "p", "l", "a", "i", "n">>

P_codeOther == <<"c", "o", "d", "e", "x">>

P_code == <<"c", "o", "d", "e">>
P_codeSlash == <<"c", "o", "d", "e", "/">>
P_archive == <<"a", "r", "c", "h", "i", "v", "e", "/">>
P_office == <<"d", "o", "c", "u", "m", "e", "n", "t", "/", "o", "f", "f", "i", "c", "e">>
P_pdf == <<"d", "o", "c", "u", "m", "e", "n", "t", "/", "p", "d", "f">>
P_executable == <<"e", "x", "e", "c", "u", "t", "a", "b", "l", "e">>

\* str.startswith
StartsWith(s, p) == Len(s) >= Len(p) /\ SubSeq(s, 1, Len(p)) = p

\* s.split('/', 1)[0]
RECURSIVE TopLevel(_)
TopLevel(s) ==
    IF s = <<>> \/ Head(s) = "/" THEN <<>> ELSE <<Head(s)>> \o TopLevel(Tail(s))

SampleBuf(s) == Buf("sample", 0, s.size)

\* ------------------------------------------------------------- execute

DeepMaxSize == 8000000
DeepBbMaxSize == 200000
ConfigMaxSize == 3000000
ConfigBbMaxSize == 85000

max_size(s) == IF s.deep_scan THEN DeepMaxSize ELSE ConfigMaxSize

bb_max_sizeOfFile(s) == max_size(s)

bb_max_size(s) == IF s.deep_scan THEN DeepBbMaxSize ELSE ConfigBbMaxSize

\* The pipeline execute runs after `stage` has returned
RECURSIVE ExecuteAfter(_, _)
ExecuteAfter(stage, s) ==
    CASE stage = "start" ->
            IF s.size >= max_size(s) \/ StartsWith(s.type, P_archive)
            THEN "done" ELSE "ascii"
      [] stage = "ascii" -> "pe"
      [] stage = "pe" ->
            IF ~StartsWith(s.type, P_code) THEN "b64"
            ELSE ExecuteAfter("bbcrack", s)
      [] stage = "b64" ->
            IF s.size < bb_max_size(s) THEN "bbcrack"
            ELSE ExecuteAfter("bbcrack", s)
      [] stage = "bbcrack" ->
            IF ~(TopLevel(s.type) \in {P_executable, P_code}) THEN "unicode"
            ELSE "done"
      [] stage = "unicode" ->
            IF ~StartsWith(s.type, P_office) THEN "hex" ELSE "done"
      [] OTHER -> "done"

After(stage) == IF solo THEN "done" ELSE ExecuteAfter(stage, sample)

\* The local variables a pipeline starts with
LocalsAt(stage, s) ==
    CASE stage = "bbcrack" ->
            [fn |-> "bbcrack_results", level |-> IF s.deep_scan THEN 2 ELSE 1,
             n |-> 0, xindex |-> 0, xor_al_results |-> <<>>, tags |-> {}]
      [] stage = "b64" ->
            [fn |-> "base64_results", phase |-> "raw", n |-> 0,
             b64_matches |-> {}, b64_al_results |-> <<>>]
      [] stage = "unicode" ->
            [fn |-> "unicode_results", hes |-> 1,
             unicode_al_results |-> {}, unicode_al_dropped_results |-> <<>>]
      [] stage = "hex" ->
            [fn |-> "hex_results", n |-> 0, asciihex_file_found |-> FALSE,
             asciihex_dict |-> <<>>, asciihex_bb_dict |-> <<>>]
      [] OTHER -> NoLoc

Return(stage) ==
    /\ pc' = After(stage)
    /\ loc' = LocalsAt(After(stage), sample)

\* An exception leaves execute
Raise ==
    /\ pc' = "aborted"
    /\ loc' = NoLoc

\* -------------------------------------------------- embedded_pe_results

\* (?s)MZ.{32,1024}PE\000\000.+ matches at offset o
MatchesExeHeader(s, o) ==
    /\ o \in s.mzAt
    /\ \E p \in s.peAt : o + 2 + 32 <= p /\ p <= o + 2 + 1024 /\ p + 4 < s.size

\* re.findall over file_contents[from:]: the leftmost match runs, .+ being
\* greedy under (?s), to the end of the sample, so there is at most one
FindExeHeaders(s, from) ==
    LET os == {o \in s.mzAt : o >= from /\ MatchesExeHeader(s, o)}
    IN  IF os = {} THEN <<>>
        ELSE <<BufFrom(SampleBuf(s), CHOOSE o \in os : \A q \in os : o <= q)>>

DosStubLen == 38

\* re.search(pat_exedos, pos_exe)
HasDosStub(s, pos_exe) ==
    \E d \in s.dosAt : d >= pos_exe.off /\ d + DosStubLen <= s.size

EmbedStrict == TRUE

EmbedLenient == FALSE

\* fail_on_except as embedded_pe_results passes it
EmbedFailOnExcept == EmbedStrict

EmbeddedPeResults(D) ==
    /\ pc = "pe"
    /\ LET found == FindExeHeaders(sample, 1)
       IN  IF found = <<>> \/ ~HasDosStub(sample, found[1])
           THEN /\ Return("pe")
                /\ UNCHANGED <<files, extracted, result, call>>
           ELSE LET pos_exe == found[1]
                    temp_file == FileName("EXE_TEMP", sha256(pos_exe))
                IN  \E tempOk \in D.ok :
                      IF ~tempOk
                      THEN /\ Raise
                           /\ UNCHANGED <<files, extracted, result, call>>
                      ELSE \E parse \in ParseOutcomes(pos_exe) \cap D.parse,
                              writeOk \in D.ok :
                             LET r == pe_dump(WriteFile(files, temp_file, pos_exe),
                                              extracted, "embedded_pe_results",
                                              temp_file, 0, "embed_pe",
                                              "PE header strings discovered in sample",
                                              EmbedFailOnExcept, parse, writeOk)
                             IN  /\ files' = r.files
                                 /\ extracted' = r.extracted
                                 /\ call' = r.call
                                 /\ result' =
                                      IF r.call.ret
                                      THEN [result EXCEPT !.sections =
                                              @ \cup {"Embedded PE header discovered in sample. See extracted files."}]
                                      ELSE result
                                 /\ Return("pe")
    /\ UNCHANGED <<solo, sample, bu>>

\* ------------------------------------------------------ bbcrack_results

MaxHits == 1

XorHits ==
    [transform : {"xor_41"},
     regex : {"EXE_HEAD", "EXE_MZ", "network.static.domain"},
     offset : {0, 7}, score : {5},
     smatch : {Buf("unxored", 0, 5), Buf("unxored", 0, 2048)}]

\* A hit of bbcrack at level small_string
XHit(regex, match) == [transform |-> "xor_41", regex |-> regex, match |-> match]

\* regex.startswith('EXE_'), over the names of the hits drawn here
StartsWithEXENever(regex) == FALSE

StartsWithEXE(regex) == regex \in {"EXE_HEAD", "EXE_MZ"}

WithHit(c, hit) ==
    [x \in DOMAIN c \cup {"hit"} |-> IF x = "hit" THEN hit ELSE c[x]]

\* The offset at which bbcrack_results has pe_dump read the unmasked bytes
XorDumpOffsetZero(hit) == 0

XorDumpOffset(hit) == hit.offset

\* One iteration of the loop over xresult
BbcrackHit(D) ==
    /\ pc = "bbcrack"
    /\ loc.n < MaxHits
    /\ \E hit \in D.hits :
         IF hit.regex = "EXE_HEAD"
         THEN LET xindex == loc.xindex + 1
                  xtemp_file == FileName("EXE_HEAD",
                                        [xindex |-> xindex, offset |-> hit.offset,
                                         score |-> hit.score])
              IN  \E tempOk \in D.ok :
                    IF ~tempOk
                    THEN /\ Raise
                         /\ UNCHANGED <<files, extracted, call>>
                    ELSE \E parse \in ParseOutcomes(BufFrom(hit.smatch, XorDumpOffset(hit)))
                                        \cap D.parse,
                            writeOk \in D.ok :
                           LET r == pe_dump(WriteFile(files, xtemp_file, hit.smatch),
                                            extracted, "bbcrack_results", xtemp_file,
                                            XorDumpOffset(hit), "xorpe_decoded",
                                            "Extracted xor file during FrakenStrings analysis.",
                                            FALSE, parse, writeOk)
                           IN  /\ files' = r.files
                               /\ extracted' = r.extracted
                               /\ call' = WithHit(r.call, hit)
                               /\ pc' = pc
                               /\ loc' = [loc EXCEPT
                                     !.n = @ + 1,
                                     !.xindex = xindex,
                                     !.xor_al_results =
                                        IF r.call.ret
                                        THEN Append(@, <<hit.transform, hit.offset, hit.score,
                                                         "[PE Header Detected. See Extracted files]">>)
                                        ELSE @]
         ELSE /\ pc' = pc
              /\ loc' = [loc EXCEPT
                    !.n = @ + 1,
                    !.tags = IF ~StartsWithEXE(hit.regex)
                             THEN @ \cup {<<hit.regex, hit.smatch>>} ELSE @,
                    !.xor_al_results =
                       Append(@, <<hit.transform, hit.offset, hit.score, hit.smatch>>)]
              /\ UNCHANGED <<files, extracted, call>>
    /\ UNCHANGED <<solo, sample, result, bu>>

\* The end of xresult: the result graph
BbcrackReport ==
    /\ pc = "bbcrack"
    /\ result' = IF Len(loc.xor_al_results) > 0
                 THEN [sections |-> result.sections \cup {"BBCrack XOR'd Strings:"},
                       tags |-> result.tags \cup loc.tags]
                 ELSE result
    /\ call' = NoCall
    /\ Return("bbcrack")
    /\ UNCHANGED <<solo, sample, files, extracted, bu>>

\* ------------------------------------------------------------ ioc_to_tag

\* A string the extractor finds in some data, with what the matcher answers
\* for it: iocs is a set of [ty, v, len, valid, net], net telling the
\* network types, the only ones a just_network match evaluates, and valid
\* the answer of is_valid_domain / is_valid_email for v.
StMinLength == 7
MinLengthUnchecked == 4
MaxTagLength == 1001

\* strings.extract_ascii_strings and extract_unicode_strings with n=ml, and
\* the length filter of check_length
ExtractedStrs(strs, check_length, st_max_length) ==
    LET ml == IF check_length THEN StMinLength ELSE MinLengthUnchecked
    IN  {st \in strs : st.len >= ml /\ (check_length => st.len < st_max_length)}

\* patterns.ioc_match(s, bogon_ip=True, just_network=jn)
ioc_match(st, jn) == {i \in st.iocs : jn => i.net}

JustNetwork(strs, check_length, strs_max_size) ==
    check_length /\ Cardinality(strs) > strs_max_size

\* The empty dictionary
EmptyTags == [ty \in {} |-> {}]

\* Whether ioc_to_tag keeps the value v of type ty
TagKept(i) ==
    /\ i.ty \in {"network.static.domain", "network.email.address"} => i.valid
    /\ i.len < MaxTagLength

\* ioc_to_tag: the dictionary it returns under taglist=True (a function from
\* the types matched to the values kept), the tags it adds to res, and its
\* matcher calls
ioc_to_tag(strs, check_length, strs_max_size, st_max_length) ==
    LET kept == ExtractedStrs(strs, check_length, st_max_length)
        jn == JustNetwork(kept, check_length, strs_max_size)
        found == UNION {ioc_match(st, jn) : st \in kept}
        tys == {i.ty : i \in found}
    IN  [tags |-> IF tys = {} THEN EmptyTags ELSE [ty \in tys |-> {i.v : i \in {j \in found : j.ty = ty /\ TagKept(j)}}],
         added |-> {<<i.ty, [s |-> i.v]>> : i \in {j \in found : TagKept(j)}},
         calls |-> {[s |-> st.s, just_network |-> jn] : st \in kept}]

\* ------------------------------------------------------------------- b64

FILETYPES == {"application", "document", "exec", "image", "Microsoft", "text"}

B64MinLen == 16
FileMinLen == 200
FileMaxLen == 10000000
InterestingUniq == 12
InterestingAlnum == 50
SamplePrefixLen == 50

\* Decoded bytes, by the measures the code takes of them: len and uniq, the
\* length and the number of distinct bytes; asc, the bytes 32..126 among them
\* (their number n, distinct values uniq, alphanumerics alnum); mime and
\* magic, the keywords (FILETYPES and octet-stream) that occur in the two
\* answers of the sniffer; strs, the strings the extractor finds.
NoData == [len |-> 0, uniq |-> 0, asc |-> [n |-> 0, uniq |-> 0, alnum |-> 0],
           mime |-> {}, magic |-> {}, strs |-> {}]

\* (ft in ftype and 'octet-stream' not in ftype) or ft in mag_ftype, for
\* some ft of FILETYPES
SniffsAsFileMimeOnly(data) ==
    \E ft \in FILETYPES : ft \in data.mime /\ ~("octet-stream" \in data.mime)

SniffsAsFile(data) ==
    \E ft \in FILETYPES :
        \/ ft \in data.mime /\ ~("octet-stream" \in data.mime)
        \/ ft \in data.magic

PossibleFile(data) ==
    FileMinLen < data.len /\ data.len < FileMaxLen /\ SniffsAsFile(data)

\* not office and not pdf, as line 291 tests it
FalsePositiveProneAlways(sample_type) == FALSE

FalsePositiveProne(sample_type) ==
    StartsWith(sample_type, P_office) \/ StartsWith(sample_type, P_pdf)

NoB64Result == [reported |-> FALSE]

B64ResultWithBytes(c, dump, data) ==
    [reported |-> TRUE, sha256 |-> sha256(c.data), size |-> c.len,
     sample |-> Min(c.len, SamplePrefixLen), dump |-> dump, data |-> c.data]

B64Result(c, dump, data) ==
    [reported |-> TRUE, sha256 |-> sha256(c.data), size |-> c.len,
     sample |-> Min(c.len, SamplePrefixLen), dump |-> dump, data |-> data]

\* b64 on the candidate c = [len, uniq, ok, data]: b64_string of len
\* characters, uniq of them distinct, which a2b_base64 decodes (ok) to data.
\* dump is "file", "iocs" (the two placeholder messages) or "ascii"
\* (asc_b64); data is "" or the decoded bytes.
b64(fs, ex, c, sample_type, writeOk) ==
    LET none == [files |-> fs, extracted |-> ex, results |-> NoB64Result,
                 pat |-> EmptyTags, stored |-> FALSE, matched |-> FALSE]
        name == FileName("b64_decoded", sha256(c.data))
        store == [files |-> WriteFile(fs, name, c.data),
                  extracted |-> add_extracted(ex, name, c.data,
                                   "Extracted b64 file during FrankenStrings analysis"),
                  stored |-> TRUE]
        pat == ioc_to_tag(c.data.strs, FALSE, 0, 300).tags
        inline == [none EXCEPT !.results = B64Result(c, "ascii", c.data),
                               !.pat = pat, !.matched = TRUE]
    IN  IF ~(c.len >= B64MinLen /\ c.len % 4 = 0) THEN none
        ELSE IF ~c.ok THEN none
        ELSE IF PossibleFile(c.data)
        THEN IF ~writeOk THEN none
             ELSE [files |-> store.files, extracted |-> store.extracted,
                   results |-> B64Result(c, "file", NoData),
                   pat |-> EmptyTags, stored |-> TRUE, matched |-> FALSE]
        ELSE IF c.data.asc.n > 0
        THEN IF DOMAIN pat # {} THEN inline
             ELSE IF ~FalsePositiveProne(sample_type)
                     /\ c.data.asc.uniq > InterestingUniq
                     /\ c.data.asc.alnum > InterestingAlnum
                  THEN inline
                  ELSE [none EXCEPT !.pat = pat, !.matched = TRUE]
        ELSE IF DOMAIN pat # {}
        THEN IF ~writeOk THEN [none EXCEPT !.pat = pat, !.matched = TRUE]
             ELSE [files |-> store.files, extracted |-> store.extracted,
                   results |-> B64Result(c, "iocs", NoData),
                   pat |-> pat, stored |-> TRUE, matched |-> TRUE]
        ELSE [none EXCEPT !.pat = pat, !.matched = TRUE]

\* --------------------------------------------------------- ascii_results

DeepMaxLength == 1000000
DeepStMaxSize == 1000000
ConfigMaxLength == 5000
ConfigStMaxSize == 0

max_length(s) == IF s.deep_scan THEN DeepMaxLength ELSE ConfigMaxLength
st_max_size(s) == IF s.deep_scan THEN DeepStMaxSize ELSE ConfigStMaxSize

ascii_results ==
    /\ pc = "ascii"
    /\ LET chkl == ~StartsWith(sample.type, P_code)
           file_plainstr_iocs == ioc_to_tag(sample.strs, chkl, st_max_size(sample),
                                            max_length(sample))
       IN  /\ result' =
                IF DOMAIN file_plainstr_iocs.tags # {}
                THEN [sections |-> result.sections
                         \cup {"The following IOC were found in plain text in the file:"},
                      tags |-> result.tags \cup file_plainstr_iocs.added]
                ELSE result
           /\ call' = [fn |-> "ioc_to_tag", caller |-> "ascii_results",
                       check_length |-> chkl, tags |-> file_plainstr_iocs.tags,
                       calls |-> file_plainstr_iocs.calls]
    /\ Return("ascii")
    /\ UNCHANGED <<solo, sample, files, extracted, bu>>

\* -------------------------------------------------------- base64_results

MaxCands == 2

B64MinUniq == 6

\* The tags of a dictionary ioc_to_tag returned
TagsOf(pat) == UNION {{<<ty, [s |-> v]>> : v \in pat[ty]} : ty \in DOMAIN pat}

\* bytes(i for i in base64data if 31 < i < 127)
Printable(data) == IF data.asc.n = data.len THEN data ELSE [printable |-> data]

\* b"\n".join(b64_ascii_content)
Join(content) == IF Len(content) = 1 THEN content[1] ELSE [join |-> content]

B64Call(c, writeOk, r) ==
    [fn |-> "b64", c |-> c, writeOk |-> writeOk, results |-> r.results,
     pat |-> r.pat, stored |-> r.stored, matched |-> r.matched]

\* One iteration of the loop over the candidates found in file_contents
B64Raw(D) ==
    /\ pc = "b64"
    /\ loc.fn = "base64_results"
    /\ loc.phase = "raw"
    /\ loc.n < MaxCands
    /\ \E b64_string \in D.b64 :
         IF b64_string \in loc.b64_matches
         THEN /\ loc' = [loc EXCEPT !.n = @ + 1]
              /\ UNCHANGED <<files, extracted, call>>
         ELSE IF ~(b64_string.uniq > B64MinUniq)
         THEN /\ loc' = [loc EXCEPT !.n = @ + 1,
                                    !.b64_matches = @ \cup {b64_string}]
              /\ UNCHANGED <<files, extracted, call>>
         ELSE \E writeOk \in D.ok :
                LET r == b64(files, extracted, b64_string, sample.type, writeOk)
                IN  /\ files' = r.files
                    /\ extracted' = r.extracted
                    /\ call' = B64Call(b64_string, writeOk, r)
                    /\ loc' = [loc EXCEPT
                          !.n = @ + 1,
                          !.b64_matches = @ \cup {b64_string},
                          !.b64_al_results =
                             IF r.results.reported
                             THEN Append(@, [results |-> r.results, pat |-> r.pat])
                             ELSE @]
    /\ UNCHANGED <<pc, solo, sample, result, bu>>

\* The end of the first loop
B64RawDone ==
    /\ pc = "b64"
    /\ loc.fn = "base64_results"
    /\ loc.phase = "raw"
    /\ loc' = [loc EXCEPT !.phase = "utf16", !.n = 0]
    /\ UNCHANGED <<pc, solo, sample, files, extracted, result, call, bu>>

\* One iteration of the loop over the candidates found in UTF-16 strings
B64Utf16(D) ==
    /\ pc = "b64"
    /\ loc.fn = "base64_results"
    /\ loc.phase = "utf16"
    /\ loc.n < MaxCands
    /\ \E b64_string \in D.b64 :
         IF ~(b64_string.uniq > B64MinUniq)
         THEN /\ loc' = [loc EXCEPT !.n = @ + 1]
              /\ UNCHANGED <<files, extracted, call>>
         ELSE \E writeOk \in D.ok :
                LET r == b64(files, extracted, b64_string, sample.type, writeOk)
                IN  /\ files' = r.files
                    /\ extracted' = r.extracted
                    /\ call' = B64Call(b64_string, writeOk, r)
                    /\ loc' = [loc EXCEPT
                          !.n = @ + 1,
                          !.b64_al_results =
                             IF r.results.reported
                             THEN Append(@, [results |-> r.results, pat |-> r.pat])
                             ELSE @]
    /\ UNCHANGED <<pc, solo, sample, result, bu>>

\* The dumps that are no placeholders
RECURSIVE AsciiContent(_)
AsciiContent(rs) ==
    IF rs = <<>> THEN <<>>
    ELSE (IF Head(rs).results.dump = "ascii"
          THEN <<Printable(Head(rs).results.data)>> ELSE <<>>)
         \o AsciiContent(Tail(rs))

\* The end of the second loop: the result graph and the file of all dumps
B64Report(D) ==
    /\ pc = "b64"
    /\ loc.fn = "base64_results"
    /\ loc.phase = "utf16"
    /\ LET rs == loc.b64_al_results
           b64_ascii_content == AsciiContent(rs)
           all_b64 == Join(b64_ascii_content)
           name == FileName("all_b64", sha256(all_b64))
       IN  IF Len(rs) = 0
           THEN UNCHANGED <<files, extracted, result>>
           ELSE /\ result' =
                     [sections |-> result.sections \cup {"Base64 Strings:"},
                      tags |-> result.tags
                                 \cup UNION {TagsOf(rs[i].pat) : i \in 1..Len(rs)}]
                /\ IF Len(b64_ascii_content) > 0
                   THEN \E writeOk \in D.ok :
                          IF writeOk
                          THEN /\ files' = WriteFile(files, name, all_b64)
                               /\ extracted' = add_extracted(extracted, name, all_b64,
                                                  "all misc decoded b64 from sample")
                          ELSE UNCHANGED <<files, extracted>>
                   ELSE UNCHANGED <<files, extracted>>
    /\ call' = NoCall
    /\ Return("b64")
    /\ UNCHANGED <<solo, sample, bu>>

\* -------------------------------------------------- decode_encoded_udata

UniMinLenLess == 30 - 1

UniMinLen == 30
UniFileLen == 500
UniFileUniq == 20
UniInlineUniq == 6

NoUdata(fs, ex) ==
    [files |-> fs, extracted |-> ex, shalist |-> <<>>, decoded_res |-> <<>>,
     writes |-> 0, raised |-> FALSE]

\* The loop over filtered_list. decoded is the pair (decoded bytes, first 200
\* characters of the run); fail is the number of the write that fails, 0 when
\* none does.
RECURSIVE UdataLoop(_, _, _, _)
UdataLoop(decoded_list, encoding, acc, fail) ==
    IF decoded_list = <<>> \/ acc.raised THEN acc
    ELSE LET decoded == Head(decoded_list)
             data == decoded[1]
             name == FileName("enchex_decoded",
                              [sha256 |-> sha256(data), encoding |-> encoding])
             next ==
                IF ~(data.len > UniMinLen) THEN acc
                ELSE IF data.len >= UniFileLen
                THEN IF data.uniq > UniFileUniq
                     THEN IF acc.writes + 1 = fail
                          THEN [acc EXCEPT !.shalist = Append(@, sha256(data)),
                                           !.raised = TRUE]
                          ELSE [acc EXCEPT
                                  !.shalist = Append(@, sha256(data)),
                                  !.writes = @ + 1,
                                  !.files = WriteFile(@, name, data),
                                  !.extracted = add_extracted(@, name, data,
                                     "Extracted unicode file during FrankenStrings analysis")]
                     ELSE acc
                ELSE IF data.uniq > UniInlineUniq
                THEN [acc EXCEPT !.decoded_res =
                         Append(@, [sha256 |-> sha256(data), size |-> Len(decoded),
                                    sample |-> decoded[2], data |-> data])]
                ELSE acc
         IN  UdataLoop(Tail(decoded_list), encoding, next, fail)

\* decode_encoded_udata from decoded_list on: the runs of the four word sizes
\* that are longer than 50, decoded by decode_bu
decode_encoded_udata(fs, ex, encoding, decoded_list, fail) ==
    UdataLoop(decoded_list, encoding, NoUdata(fs, ex), fail)

\* ------------------------------------------------------- unicode_results

\* unicode_al_results[i[0]] = [i[1], i[2], i[3]] for every i of unires
RECURSIVE PutAll(_, _)
PutAll(dict, unires) ==
    IF unires = <<>> THEN dict
    ELSE PutAll({e \in dict : e.sha256 # Head(unires).sha256} \cup {Head(unires)},
                Tail(unires))

\* usha_hes for every usha of uhash
DroppedOf(uhash, hes) == [i \in 1..Len(uhash) |-> [usha |-> uhash[i], hes |-> hes]]

\* One iteration of the loop over HEXENC_STRINGS
UnicodeMarker(D) ==
    /\ pc = "unicode"
    /\ loc.hes <= Len(HEXENC_STRINGS)
    /\ IF ~(loc.hes \in sample.hes)
       THEN /\ pc' = pc
            /\ loc' = [loc EXCEPT !.hes = @ + 1]
            /\ UNCHANGED <<files, extracted, call>>
       ELSE \E decoded_list \in D.uni :
              \E fail \in {0} \cup {k \in 1..Len(decoded_list) : FALSE \in D.ok} :
                   LET hes == HEXENC_STRINGS[loc.hes]
                       r == decode_encoded_udata(files, extracted, hes, decoded_list, fail)
                   IN  /\ files' = r.files
                       /\ extracted' = r.extracted
                       /\ call' = [fn |-> "decode_encoded_udata", encoding |-> hes,
                                   decoded_list |-> decoded_list, fail |-> fail,
                                   shalist |-> r.shalist, decoded_res |-> r.decoded_res,
                                   raised |-> r.raised]
                       /\ IF r.raised THEN Raise
                          ELSE /\ pc' = pc
                               /\ loc' = [loc EXCEPT
                                     !.hes = @ + 1,
                                     !.unicode_al_results = PutAll(@, r.decoded_res),
                                     !.unicode_al_dropped_results =
                                        @ \o DroppedOf(r.shalist, hes)]
    /\ UNCHANGED <<solo, sample, result, bu>>

\* The end of the loop: the result graph
UnicodeReport ==
    /\ pc = "unicode"
    /\ loc.hes > Len(HEXENC_STRINGS)
    /\ result' =
         IF loc.unicode_al_results # {} \/ Len(loc.unicode_al_dropped_results) > 0
         THEN [sections |-> result.sections
                  \cup {"Found Unicode-Like Strings in Non-Executable:"},
               tags |-> result.tags \cup
                  UNION {ioc_to_tag(ui.data.strs, FALSE, 0, 1000).added :
                            ui \in loc.unicode_al_results}]
         ELSE result
    /\ call' = NoCall
    /\ Return("unicode")
    /\ UNCHANGED <<solo, sample, files, extracted, bu>>

\* ------------------------------------------------------- unhexlify_ascii

HexMinUniq == 7
HexFileLen == 500
HexFileUniqLow == HexMinUniq

HexFileUniq == 20
XorMinLen == 20
XorMaxLen == 128

\* unhexlify_ascii on data = [len, ok, data]: len hexadecimal characters, an
\* odd one dropped, which unhexlify decodes (ok) to data; xresult is what
\* bbcrack answers at level small_string
unhexlify_ascii(fs, ex, data, tag, xresult, writeOk) ==
    LET binstr == data.data
        none == [files |-> fs, extracted |-> ex, filefound |-> FALSE,
                 tags |-> EmptyTags, raised |-> FALSE, stored |-> FALSE,
                 matched |-> FALSE, xcalled |-> FALSE, xored |-> FALSE]
        name == FileName("asciihex_decoded", sha256(binstr))
        tags == ioc_to_tag(binstr.strs, FALSE, 0, 1000).tags
        ty == IF StartsWithEXE(xresult[1].regex)
              THEN "file.string.blacklisted" ELSE xresult[1].regex
    IN  IF ~data.ok THEN none
        ELSE IF binstr.uniq < HexMinUniq THEN none
        ELSE IF binstr.len > HexFileLen
        THEN IF binstr.uniq < HexFileUniq THEN none
             ELSE IF ~writeOk THEN [none EXCEPT !.raised = TRUE]
             ELSE [none EXCEPT
                     !.filefound = TRUE,
                     !.stored = TRUE,
                     !.files = WriteFile(fs, name, binstr),
                     !.extracted = add_extracted(ex, name, binstr,
                        "Extracted ascii-hex file during FrankenStrings analysis")]
        ELSE IF DOMAIN tags # {} THEN [none EXCEPT !.tags = tags, !.matched = TRUE]
        ELSE IF XorMinLen < binstr.len /\ binstr.len <= XorMaxLen
                /\ StartsWith(tag, P_codeSlash)
        THEN IF Len(xresult) > 0
             THEN [none EXCEPT
                     !.matched = TRUE,
                     !.xcalled = TRUE,
                     !.xored = TRUE,
                     !.tags = [t \in {ty} |->
                                 {[data |-> data, match |-> xresult[1].match,
                                   transform |-> xresult[1].transform]}]]
             ELSE [none EXCEPT !.matched = TRUE, !.xcalled = TRUE]
        ELSE [none EXCEPT !.matched = TRUE]

\* ----------------------------------------------------------- hex_results

\* asciihex_dict[ask].append(asi) for every item of asciihex_results
ItemsOf(tags) ==
    LET RECURSIVE Items(_)
        Items(tys) ==
            IF tys = {} THEN <<>>
            ELSE LET ty == CHOOSE t \in tys : TRUE
                 IN  <<[ask |-> ty, asi |-> tags[ty]]>> \o Items(tys \ {ty})
    IN  Items(DOMAIN tags)

\* ask.startswith('BB_'), over the names of the tags drawn here: neither
\* the matcher's names nor the names unhexlify_ascii files the cracker's
\* hits under begin with BB_
StartsWithBB(ask) == ask \in {}

HexCall(hex_string, tag, writeOk, r) ==
    [fn |-> "unhexlify_ascii", data |-> hex_string, tag |-> tag,
     writeOk |-> writeOk, filefound |-> r.filefound, tags |-> r.tags,
     stored |-> r.stored, raised |-> r.raised, matched |-> r.matched,
     xcalled |-> r.xcalled, xored |-> r.xored]

\* One iteration of the loop over the runs of hexadecimal pairs
HexMatch(D) ==
    /\ pc = "hex"
    /\ loc.n < MaxCands
    /\ \E hex_string \in D.hex, xresult \in D.xsmall, writeOk \in D.ok :
         LET r == unhexlify_ascii(files, extracted, hex_string, sample.type,
                                  xresult, writeOk)
         IN  /\ files' = r.files
             /\ extracted' = r.extracted
             /\ call' = HexCall(hex_string, sample.type, writeOk, r)
             /\ IF r.raised THEN Raise
                ELSE /\ pc' = pc
                     /\ loc' = [loc EXCEPT
                           !.n = @ + 1,
                           !.asciihex_file_found = @ \/ r.filefound,
                           !.asciihex_dict = @ \o
                              SelectSeq(ItemsOf(r.tags),
                                        LAMBDA it : ~StartsWithBB(it.ask)),
                           !.asciihex_bb_dict = @ \o
                              SelectSeq(ItemsOf(r.tags),
                                        LAMBDA it : StartsWithBB(it.ask))]
    /\ UNCHANGED <<solo, sample, result, bu>>

\* The end of the loop: the result graph
HexReport ==
    /\ pc = "hex"
    /\ result' =
         [result EXCEPT !.sections =
            @ \cup (IF loc.asciihex_file_found
                    THEN {"Found Large Ascii Hex Strings in Non-Executable:"}
                    ELSE {})
              \cup (IF Len(loc.asciihex_dict) > 0
                    THEN {"ASCII HEX DECODED IOC Strings:"} ELSE {})
              \cup (IF Len(loc.asciihex_bb_dict) > 0
                    THEN {"ASCII HEX AND XOR DECODED IOC Strings:"} ELSE {}),
            !.tags =
            @ \cup UNION {{<<loc.asciihex_bb_dict[i].ask, [s |-> v.match]>> :
                              v \in loc.asciihex_bb_dict[i].asi} :
                           i \in 1..Len(loc.asciihex_bb_dict)}]
    /\ call' = NoCall
    /\ Return("hex")
    /\ UNCHANGED <<solo, sample, files, extracted, bu>>

\* --------------------------------------------------------------- execute

\* execute up to the call of the first pipeline
Execute ==
    /\ pc = "start"
    /\ ~solo
    /\ result' = NoResult
    /\ Return("start")
    /\ UNCHANGED <<solo, sample, files, extracted, call, bu>>

\* ------------------------------------------ the carver, called on its own

PeSample(mz, gap, dos, size) ==
    [type |-> T_text, size |-> size, deep_scan |-> FALSE,
     mzAt |-> mz, peAt |-> {o + 2 + gap : o \in mz}, dosAt |-> dos,
     strs |-> {}, hes |-> {}]

PESamples ==
    {PeSample(mz, gap, dos, size) :
        mz \in SUBSET {0, 1, 100}, gap \in {31, 32, 40, 1024, 1025}, dos \in SUBSET {49, 1200},
        size \in {1090, 1300}}

\* b"MZ" + b"\x00"*40 + b"PE\x00\x00" + b"...This program cannot be run in DOS
\* mode..." + b"A"*1000
LiteralSample == PeSample({0}, 40, {49}, 1090)

InitPE ==
    /\ solo = TRUE
    /\ \/ pc = "pe" /\ sample \in PESamples
       \/ pc = "bbcrack" /\ sample \in {[NoSample EXCEPT !.deep_scan = d] : d \in BOOLEAN}
    /\ loc = LocalsAt(pc, sample)
    /\ files = {}
    /\ extracted = <<>>
    /\ result = NoResult
    /\ call = NoCall
    /\ bu = BuIdle

AllParses == ParseOutcomes(SampleBuf([size |-> 1]))

DomPE == [ok |-> BOOLEAN, parse |-> AllParses, hits |-> XorHits]

NextPE == EmbeddedPeResults(DomPE) \/ BbcrackHit(DomPE) \/ BbcrackReport

SpecPE == InitPE /\ [][NextPE]_vars

\* ----------------------------------------------------- claims: the carver

\* The maximum, over the declared sections, of file offset + raw size
MaxSectionEnd(sections) ==
    LET ends == {sections[i].PointerToRawData + sections[i].SizeOfRawData :
                    i \in 1..Len(sections)}
    IN  IF ends = {} THEN 0 ELSE CHOOSE e \in ends : \A f \in ends : f <= e

NoSectionTable(parse) == ~parse.ok \/ parse.sections = <<>>

LastExtracted == extracted[Len(extracted)]

\* C4 as stated: for the sample MZ, 40 zero bytes, PE\0\0, the DOS-mode text
\* and 1000 'A' bytes, embedded_pe_results emits exactly one artifact, which
\* spans from the window's start to the end of the sample.
C4_LiteralSampleOneArtifact ==
    (pc = "done" /\ sample = LiteralSample) =>
        /\ Len(extracted) = 1
        /\ extracted[1].data = SampleBuf(sample)

\* C4 as amended: for that sample embedded_pe_results emits no artifact, and
\* for any sample a validated window for which the parser finds no section
\* table yields no artifact, pe_dump being called with fail_on_except=True.
C4_StrictCarveEmitsNothing ==
    /\ (pc = "done" /\ sample = LiteralSample) => extracted = <<>>
    /\ (call.fn = "pe_dump" /\ call.caller = "embedded_pe_results"
          /\ NoSectionTable(call.parse)) =>
            (extracted = <<>> /\ ~call.ret)

C4_Witness ==
    /\ pc = "done"
    /\ sample = LiteralSample
    /\ files = {}

C6_CarverAtOffsetZero ==
    (call.fn = "pe_dump" /\ call.caller = "bbcrack_results") =>
        /\ call.buffer = call.hit.smatch
        /\ call.offset = 0

\* C6 as amended: for every EXE_HEAD hit the unmasked bytes are written to
\* scratch and pe_dump is invoked on them at the offset the collaborator
\* reported for the hit.
C6_CarverAtReportedOffset ==
    (call.fn = "pe_dump" /\ call.caller = "bbcrack_results") =>
        /\ call.hit.regex = "EXE_HEAD"
        /\ call.buffer = call.hit.smatch
        /\ \E f \in files : f.name.tag = "EXE_HEAD" /\ f.data = call.hit.smatch
        /\ call.offset = call.hit.offset
        /\ call.pedata = BufFrom(call.hit.smatch, call.hit.offset)

C6_Witness ==
    /\ call.fn = "pe_dump"
    /\ call.caller = "bbcrack_results"
    /\ call.hit.offset = 7
    /\ call.pedata.len = 2041
    /\ call.stored

\* ------------------------------------------------- b64, called on its own

Ioc(ty, v, len, valid, net) ==
    [ty |-> ty, v |-> v, len |-> len, valid |-> valid, net |-> net]

\* A string of len characters, asc of them in 32..126 (the extractor takes the
\* tabulation for a character of a string too)
Str(name, len, asc, iocs) == [s |-> name, len |-> len, asc |-> asc, iocs |-> iocs]

S_ip == Str("http 10.1.2.3", 13, 13,
            {Ioc("network.static.ip", "10.1.2.3", 8, TRUE, TRUE)})
S_baddomain == Str("a.notatld", 9, 9,
                   {Ioc("network.static.domain", "a.notatld", 9, FALSE, TRUE)})
S_short == Str("1.2", 3, 3, {Ioc("network.static.ip", "1.2", 3, TRUE, TRUE)})
S_blacklisted == Str("VirtualAlloc", 12, 12,
                     {Ioc("file.string.blacklisted", "VirtualAlloc", 12, TRUE, FALSE)})
S_plain == Str("hello world", 11, 11, {})
S_tabs == Str("\t\t\t\t", 4, 0,
              {Ioc("file.string.blacklisted", "\t\t\t\t", 4, TRUE, FALSE)})

\* The characters 32..126 of the strings of data are among those of data
StrsFit(data) == \A st \in data.strs : st.asc <= data.asc.n

B64Data ==
    {data \in [len : {100, 200, 201, 9999999, 10000000},
               uniq : {30},
               asc : {[n |-> 0, uniq |-> 0, alnum |-> 0],
                      [n |-> 60, uniq |-> 12, alnum |-> 51],
                      [n |-> 60, uniq |-> 13, alnum |-> 50],
                      [n |-> 60, uniq |-> 13, alnum |-> 51]},
               mime : {{}, {"application"}, {"application", "octet-stream"},
                       {"text"}},
               magic : {{}, {"exec"}},
               strs : {{}, {S_ip}, {S_baddomain}, {S_short, S_plain},
                       {S_tabs}}] : StrsFit(data)}

\* The length of the base64 text of n bytes
B64TextLen(n) == 4 * ((n + 2) \div 3)

B64Cands ==
    {[len |-> B64TextLen(d.len), uniq |-> 20, ok |-> TRUE, data |-> d] : d \in B64Data}
    \cup {[len |-> 12, uniq |-> 20, ok |-> TRUE, data |-> NoData],
          [len |-> 18, uniq |-> 20, ok |-> TRUE, data |-> NoData],
          [len |-> 16, uniq |-> 20, ok |-> FALSE, data |-> NoData]}

InitB64Call ==
    /\ solo = TRUE
    /\ pc = "b64"
    /\ sample \in {[NoSample EXCEPT !.type = t] : t \in {T_office, T_pdf, T_text, T_exe}}
    /\ loc \in {[fn |-> "b64", b64_string |-> c] : c \in B64Cands}
    /\ files = {}
    /\ extracted = <<>>
    /\ result = NoResult
    /\ call = NoCall
    /\ bu = BuIdle

\* One call b64(request, b64_string, patterns)
CallB64 ==
    /\ pc = "b64"
    /\ loc.fn = "b64"
    /\ \E writeOk \in BOOLEAN :
         LET r == b64(files, extracted, loc.b64_string, sample.type, writeOk)
         IN  /\ files' = r.files
             /\ extracted' = r.extracted
             /\ call' = [fn |-> "b64", c |-> loc.b64_string, writeOk |-> writeOk,
                         results |-> r.results, pat |-> r.pat, stored |-> r.stored,
                         matched |-> r.matched]
    /\ pc' = "done"
    /\ loc' = NoLoc
    /\ UNCHANGED <<solo, sample, result, bu>>

SpecB64Call == InitB64Call /\ [][CallB64]_vars

\* --------------------------------------------------------- claims: b64

Decoded(c) == c.len >= 16 /\ c.len % 4 = 0 /\ c.ok

LenOfFile(data) == 200 < data.len /\ data.len < 10000000

PersistedAsFile == call.results.reported /\ call.results.dump = "file" /\ call.stored

\* C8 as stated: a decoded base64 candidate is persisted as possible file
\* contents if and only if its decoded length is strictly between 200 and
\* 10,000,000 and the sniffer reports one of the interesting categories and
\* does not report a generic octet-stream (here when the write succeeds);
\* then the matcher is not run on it and the returned tag set is empty.
C8_FileIffNoOctetStream ==
    (call.fn = "b64" /\ Decoded(call.c) /\ call.writeOk) =>
        /\ PersistedAsFile <=>
              /\ LenOfFile(call.c.data)
              /\ \E ft \in FILETYPES : ft \in call.c.data.mime \cup call.c.data.magic
              /\ ~("octet-stream" \in call.c.data.mime)
        /\ PersistedAsFile => (~call.matched /\ DOMAIN call.pat = {})

\* C8 as amended: a decoded base64 candidate is persisted as possible file
\* contents if and only if its decoded length is strictly between 200 and
\* 10,000,000, the sniffer's MIME type names one of the interesting
\* categories and is not an octet-stream, or its description names one of
\* them (whatever the MIME type), and the scratch write succeeds; then the
\* matcher is not run on it and the returned tag set is empty.
C8_FileIffMimeOrDescription ==
    (call.fn = "b64" /\ Decoded(call.c)) =>
        /\ PersistedAsFile <=>
              /\ LenOfFile(call.c.data)
              /\ \/ /\ \E ft \in FILETYPES : ft \in call.c.data.mime
                    /\ ~("octet-stream" \in call.c.data.mime)
                 \/ \E ft \in FILETYPES : ft \in call.c.data.magic
              /\ call.writeOk
        /\ PersistedAsFile =>
              /\ ~call.matched
              /\ DOMAIN call.pat = {}
              /\ \E f \in files : f.data = call.c.data /\ f.name.tag = "b64_decoded"
              /\ LastExtracted.data = call.c.data

C8_Witness ==
    /\ call.fn = "b64"
    /\ PersistedAsFile
    /\ "octet-stream" \in call.c.data.mime
    /\ "exec" \in call.c.data.magic
    /\ call.c.data.strs # {}

\* The matcher found an indicator in a string of the decoded bytes (the
\* extractor hands it the strings of 4 characters or more)
MatcherFound(data) == \E st \in data.strs : st.len >= 4 /\ st.iocs # {}

Interesting(data) == data.asc.uniq > 12 /\ data.asc.alnum > 50

OfficeOrPdf(t) == StartsWith(t, P_office) \/ StartsWith(t, P_pdf)

\* C9: a decoded base64 candidate that is not persisted as possible file
\* contents (it is not a possible file: one whose write fails is dropped)
\* and whose printable subset is not empty is reported if and only if the
\* matcher found an indicator, or the sample is neither document/office nor
\* document/pdf and the printable subset has more than 12 unique characters
\* and more than 50 alphanumerics; so for office and PDF samples a
\* candidate with no indicator is never reported.
C9_ReportedIffIndicatorOrInteresting ==
    (/\ call.fn = "b64" /\ Decoded(call.c)
     /\ ~(LenOfFile(call.c.data) /\
            \E ft \in FILETYPES : \/ ft \in call.c.data.mime
                                     /\ ~("octet-stream" \in call.c.data.mime)
                                  \/ ft \in call.c.data.magic)
     /\ call.c.data.asc.n > 0) =>
        /\ call.results.reported <=>
              \/ MatcherFound(call.c.data)
              \/ ~OfficeOrPdf(sample.type) /\ Interesting(call.c.data)
        /\ (OfficeOrPdf(sample.type) /\ ~MatcherFound(call.c.data)) =>
              ~call.results.reported
        /\ call.results.reported =>
              (call.results.dump = "ascii" /\ call.results.data = call.c.data
               /\ ~call.stored)

C9_Witness ==
    /\ call.fn = "b64"
    /\ Decoded(call.c)
    /\ sample.type = T_office
    /\ call.c.data.asc.n > 0
    /\ Interesting(call.c.data)
    /\ call.c.data.strs = {S_short, S_plain}
    /\ call.matched
    /\ ~call.results.reported

\* The bytes a word denotes, pairs taken back to front
WordBytesReversed(digits) ==
    LET n == Len(digits) \div 2
    IN  [k \in 1..n |-> 16 * HexVal(digits[2 * (n - k) + 1])
                           + HexVal(digits[2 * (n - k) + 2])]

\* C10: decode_bu on a representative of word size S (a non-empty sequence
\* of words, each a marker and S hex digits) returns without error, for each
\* word in order, the S/2 bytes of its hex pairs in reversed order; the
\* output length is (number of words) * S/2.
C10_DecodeBuReversesWords ==
    bu.pc = "ret" =>
        /\ bu.ret.ok
        /\ bu.ret.bytes =
              Concat([w \in 1..Len(bu.seeds) |->
                         WordBytesReversed(WordDigits(bu.seeds[w], bu.size))])
        /\ Len(bu.ret.bytes) = Len(bu.seeds) * (bu.size \div 2)

C10_Witness ==
    /\ bu.pc = "ret"
    /\ bu.size = 16
    /\ Len(bu.seeds) = 2
    /\ bu.ret.ok
    /\ Len(bu.ret.bytes) = 16
    /\ bu.ret.bytes[1] # bu.ret.bytes[8]

\* --------------------------------------------------- the engine, invoked

\* Decoded contents: text that the sniffer takes for a file, a short text
\* with an indicator, and bytes none of which is in 32..126 with an indicator
D_file == [len |-> 600, uniq |-> 30, asc |-> [n |-> 600, uniq |-> 30, alnum |-> 500],
           mime |-> {"text"}, magic |-> {}, strs |-> {}]
D_ioc == [len |-> 99, uniq |-> 10, asc |-> [n |-> 99, uniq |-> 10, alnum |-> 80],
          mime |-> {}, magic |-> {}, strs |-> {S_ip}]
D_bin == [len |-> 99, uniq |-> 10, asc |-> [n |-> 0, uniq |-> 0, alnum |-> 0],
          mime |-> {}, magic |-> {}, strs |-> {S_tabs}]

\* A short text without indicator
D_text == [len |-> 99, uniq |-> 10, asc |-> [n |-> 99, uniq |-> 10, alnum |-> 80],
           mime |-> {}, magic |-> {}, strs |-> {S_plain}]

B64Of(data) == [len |-> B64TextLen(data.len), uniq |-> 20, ok |-> TRUE, data |-> data]

HexOf(data) == [len |-> 2 * data.len, ok |-> TRUE, data |-> data]

\* decoded_list of one run of words of 2 hexadecimal characters
UdataOf(data) == <<data, Min(4 * data.len, 200)>>

DomExec ==
    [ok |-> BOOLEAN,
     parse |-> {ParseFail, [ok |-> TRUE, sections |-> <<[PointerToRawData |-> 512, SizeOfRawData |-> 4096]>>]},
     hits |-> {h \in XorHits : h.offset = 0 /\ h.smatch.len = 2048
                               /\ h.regex # "EXE_MZ"},
     b64 |-> {B64Of(D_file), B64Of(D_ioc)},
     uni |-> {<<UdataOf(D_file)>>, <<UdataOf(D_ioc)>>},
     hex |-> {HexOf(D_file), HexOf(D_ioc), HexOf(D_text)},
     xsmall |-> {<<XHit("network.static.domain", "a.example.com")>>}]

\* A sample of 1090 bytes with one marker of hex-unicode and no PE header
PlainSample == [PeSample({}, 40, {}, 1090) EXCEPT !.hes = {2}]

ExecSamples ==
    {[PlainSample EXCEPT !.type = t, !.deep_scan = d] :
        t \in {T_text, T_office, T_code, T_exe, T_archive}, d \in BOOLEAN}
    \cup {LiteralSample,
          [PlainSample EXCEPT !.type = T_pdf],
          [PlainSample EXCEPT !.size = ConfigBbMaxSize],
          [PlainSample EXCEPT !.size = ConfigMaxSize],
          [PlainSample EXCEPT !.size = ConfigMaxSize, !.deep_scan = TRUE],
          [PlainSample EXCEPT !.strs = {S_ip}, !.hes = {1, 5}]}

Init ==
    /\ pc = "start"
    /\ solo = FALSE
    /\ sample \in ExecSamples
    /\ files = {}
    /\ extracted = <<>>
    /\ result = NoResult
    /\ loc = NoLoc
    /\ call = NoCall
    /\ bu = BuIdle

Next ==
    \/ Execute
    \/ ascii_results
    \/ EmbeddedPeResults(DomExec)
    \/ B64Raw(DomExec)
    \/ B64RawDone
    \/ B64Utf16(DomExec)
    \/ B64Report(DomExec)
    \/ BbcrackHit(DomExec)
    \/ BbcrackReport
    \/ UnicodeMarker(DomExec)
    \/ UnicodeReport
    \/ HexMatch(DomExec)
    \/ HexReport

Spec == Init /\ [][Next]_vars

\* ------------------------------------- the decoders, called on their own

\* Decoded contents that the decoders drop: too few distinct bytes, and too
\* short for decode_encoded_udata
D_flat == [len |-> 99, uniq |-> 6, asc |-> [n |-> 99, uniq |-> 6, alnum |-> 99],
           mime |-> {}, magic |-> {}, strs |-> {}]
D_short == [len |-> 30, uniq |-> 10, asc |-> [n |-> 30, uniq |-> 10, alnum |-> 30],
            mime |-> {}, magic |-> {}, strs |-> {}]

\* Decoded contents at the edges of the length and unique-byte tests
D_edges ==
    {[D_short EXCEPT !.len = 29], [D_short EXCEPT !.len = 31],
     [D_short EXCEPT !.len = 31, !.uniq = 6], [D_short EXCEPT !.len = 31, !.uniq = 7],
     [D_file EXCEPT !.len = 499], [D_file EXCEPT !.len = 500],
     [D_file EXCEPT !.len = 500, !.uniq = 20], [D_file EXCEPT !.len = 500, !.uniq = 21]}

DomDecoders ==
    [ok |-> BOOLEAN,
     parse |-> {ParseFail},
     hits |-> {},
     b64 |-> {B64Of(D_file), B64Of(D_ioc), B64Of(D_bin), B64Of(D_text),
              [B64Of(D_ioc) EXCEPT !.uniq = 6]},
     uni |-> {<<UdataOf(D_file)>>, <<UdataOf(D_ioc)>>, <<UdataOf(D_flat)>>,
              <<UdataOf(D_short)>>, <<UdataOf(D_file), UdataOf(D_ioc)>>,
              <<UdataOf(D_ioc), UdataOf(D_file)>>}
             \cup {<<UdataOf(data)>> : data \in D_edges},
     hex |-> {HexOf(D_file), HexOf(D_ioc), HexOf(D_flat), HexOf(D_text)},
     xsmall |-> {<<>>, <<[transform |-> "xor_41", regex |-> "EXE_MZ", match |-> "MZ"]>>,
                 <<[transform |-> "xor_41", regex |-> "network.static.domain",
                    match |-> "a.example.com"]>>}]

DecoderSamples ==
    {[NoSample EXCEPT !.type = t, !.size = 1090, !.hes = h] :
        t \in {T_text, T_office, T_code}, h \in {{1}, {2, 5}}}

InitDecoders ==
    /\ solo = TRUE
    /\ pc \in {"b64", "unicode", "hex"}
    /\ sample \in DecoderSamples
    /\ loc = LocalsAt(pc, sample)
    /\ files = {}
    /\ extracted = <<>>
    /\ result = NoResult
    /\ call = NoCall
    /\ bu = BuIdle

NextDecoders ==
    \/ B64Raw(DomDecoders)
    \/ B64RawDone
    \/ B64Utf16(DomDecoders)
    \/ B64Report(DomDecoders)
    \/ UnicodeMarker(DomDecoders)
    \/ UnicodeReport
    \/ HexMatch(DomDecoders)
    \/ HexReport

SpecDecoders == InitDecoders /\ [][NextDecoders]_vars

\* -------------------------------------------------- claims: the decoders

DecoderTags == {"b64_decoded", "asciihex_decoded", "enchex_decoded"}

\* Whether the sequence q holds x
Holds(q, x) == \E i \in 1..Len(q) : q[i] = x

\* C1 as stated: in decode_encoded_udata, b64 and unhexlify_ascii the decoded
\* bytes of a candidate are either written to scratch and registered, or
\* returned inline, never both: a call that persists them returns neither
\* their content nor their tags.
C1_PersistedNeverInline ==
    /\ call.fn = "b64" =>
          (call.stored => (call.results.data = NoData /\ call.pat = EmptyTags))
    /\ call.fn = "unhexlify_ascii" =>
          (call.stored => call.tags = EmptyTags)
    /\ call.fn = "decode_encoded_udata" =>
          \A i \in 1..Len(call.decoded_res) :
              ~Holds(call.shalist, call.decoded_res[i].sha256)

\* C1 as amended: a call of decode_encoded_udata, b64 or unhexlify_ascii that
\* persists the decoded bytes of a candidate never returns their content
\* inline; decode_encoded_udata and unhexlify_ascii return no tags for them
\* either, and b64 returns the tags of the matcher with them exactly when it
\* persists them for indicators found among bytes none of which is printable.
C1_PersistedNeverContentInline ==
    /\ call.fn = "b64" =>
          /\ call.stored =>
                /\ call.results.reported
                /\ call.results.dump \in {"file", "iocs"}
                /\ call.results.data = NoData
          /\ (call.stored /\ call.results.dump = "file") => call.pat = EmptyTags
          /\ (call.stored /\ call.results.dump = "iocs") =>
                /\ call.pat # EmptyTags
                /\ call.c.data.asc.n = 0
          /\ (call.results.reported /\ call.results.dump = "ascii") =>
                /\ ~call.stored
                /\ call.results.data = call.c.data
    /\ call.fn = "unhexlify_ascii" =>
          /\ call.stored => (call.filefound /\ call.tags = EmptyTags)
          /\ call.tags # EmptyTags => ~call.stored
    /\ call.fn = "decode_encoded_udata" =>
          /\ \A i \in 1..Len(call.decoded_res) :
                ~Holds(call.shalist, call.decoded_res[i].sha256)
          /\ \A i \in 1..Len(call.decoded_res) :
                \A e \in 1..Len(extracted) :
                    extracted[e].name.tag = "enchex_decoded" =>
                        extracted[e].data # call.decoded_res[i].data

C1_Witness ==
    /\ call.fn = "b64"
    /\ call.stored
    /\ call.results.dump = "iocs"
    /\ call.pat # EmptyTags
    /\ \E e \in 1..Len(extracted) : extracted[e].data = call.c.data

\* Whether the last call of decode_encoded_udata returned data inline, and
\* whether it persisted it
ReturnedInline(data) ==
    \E k \in 1..Len(call.decoded_res) : call.decoded_res[k].data = data

Persisted(data) ==
    /\ Holds(call.shalist, sha256(data))
    /\ \E e \in 1..Len(extracted) :
          extracted[e].name.tag = "enchex_decoded" /\ extracted[e].data = data

\* C12 as stated: decode_encoded_udata discards a decode exactly when it is
\* shorter than 30 bytes: one of 30 bytes or more is classified (persisted
\* from 500 bytes on with over 20 distinct bytes, returned inline below 500
\* with over 6), and one shorter is neither persisted nor returned.
C12_DiscardedBelow30 ==
    (call.fn = "decode_encoded_udata" /\ ~call.raised) =>
        \A i \in 1..Len(call.decoded_list) :
            LET data == call.decoded_list[i][1]
            IN  /\ data.len < 30 => (~ReturnedInline(data) /\ ~Persisted(data))
                /\ (data.len >= 30 /\ data.len < 500 /\ data.uniq > 6) =>
                      ReturnedInline(data)
                /\ (data.len >= 500 /\ data.uniq > 20) => Persisted(data)

\* C12 as amended: decode_encoded_udata discards a decode exactly when it is
\* 30 bytes long or shorter: one longer than 30 bytes is classified, and one
\* of 30 bytes or fewer is neither persisted nor returned.
C12_DiscardedUpTo30 ==
    call.fn = "decode_encoded_udata" =>
        \A i \in 1..Len(call.decoded_list) :
            LET data == call.decoded_list[i][1]
            IN  /\ data.len <= 30 => (~ReturnedInline(data) /\ ~Persisted(data))
                /\ ReturnedInline(data) =>
                      (data.len > 30 /\ data.len < 500 /\ data.uniq > 6)
                /\ Persisted(data) => (data.len >= 500 /\ data.uniq > 20)
                /\ ~call.raised =>
                      /\ (data.len > 30 /\ data.len < 500 /\ data.uniq > 6) =>
                            ReturnedInline(data)
                      /\ (data.len >= 500 /\ data.uniq > 20) => Persisted(data)

C12_Witness ==
    /\ call.fn = "decode_encoded_udata"
    /\ Len(call.decoded_list) = 1
    /\ call.decoded_list[1][1].len = 30
    /\ call.decoded_list[1][1].uniq > 6
    /\ call.decoded_res = <<>>
    /\ call.shalist = <<>>

\* C18 as stated: every inline result of decode_encoded_udata is (hash,
\* length, sample prefix, content) with hash the SHA-256 of content, the
\* prefix the first 200 bytes of the encoded representative, and length the
\* number of bytes of content.
C18_InlineTupleFields ==
    call.fn = "decode_encoded_udata" =>
        \A k \in 1..Len(call.decoded_res) :
            LET r == call.decoded_res[k]
            IN  /\ r.sha256 = sha256(r.data)
                /\ \E i \in 1..Len(call.decoded_list) :
                      /\ call.decoded_list[i][1] = r.data
                      /\ call.decoded_list[i][2] = r.sample
                /\ r.size = r.data.len

\* C7 as stated: the list of results base64_results reports never holds two
\* entries for one candidate, whether the raw sample or a UTF-16 string held
\* it.
C7_NoTwoEntriesForOneCandidate ==
    loc.fn = "base64_results" =>
        \A i, j \in 1..Len(loc.b64_al_results) :
            i # j => loc.b64_al_results[i] # loc.b64_al_results[j]

\* ---------------------------------------------------- claims: the engine

\* C2 as stated: the same decoded bytes persisted by two pipelines leave one
\* stored artifact and one artifact record.
C2_OneArtifactPerContent ==
    /\ \A i, j \in 1..Len(extracted) :
          (/\ i < j
           /\ extracted[i].name.tag \in DecoderTags
           /\ extracted[j].name.tag \in DecoderTags
           /\ extracted[i].name.tag # extracted[j].name.tag)
          => extracted[i].data # extracted[j].data
    /\ \A f, g \in files :
          (/\ f.name.tag \in DecoderTags
           /\ g.name.tag \in DecoderTags
           /\ f.name.tag # g.name.tag)
          => f.data # g.data

\* C3 as stated: a failure to write to scratch never aborts the invocation
\* (the only exception the engine meets here is that failure).
C3_WriteFailureNeverAborts == pc # "aborted"

\* --------------------------------------- unhexlify_ascii, called on its own

HexCands ==
    {HexOf([D_text EXCEPT !.len = n, !.uniq = u, !.strs = strs,
                          !.asc = [n |-> n, uniq |-> u, alnum |-> n]]) :
        n \in {20, 21, 128, 129, 500, 501}, u \in {5, 6, 7, 19, 20},
        strs \in {{}, {S_ip}, {S_baddomain}, {S_short}}}
    \cup {[HexOf(D_text) EXCEPT !.ok = FALSE]}

XSmallResults ==
    {<<>>, <<XHit("EXE_MZ", "MZ")>>,
     <<XHit("network.static.domain", "a.example.com"), XHit("EXE_MZ", "MZ")>>}

InitHexCall ==
    /\ solo = TRUE
    /\ pc = "unhexlify_ascii"
    /\ sample \in {[NoSample EXCEPT !.type = t] : t \in {T_text, T_code, P_code}}
    /\ loc \in {[fn |-> "unhexlify_ascii", data |-> c, xresult |-> x] :
                  c \in HexCands, x \in XSmallResults}
    /\ files = {}
    /\ extracted = <<>>
    /\ result = NoResult
    /\ call = NoCall
    /\ bu = BuIdle

\* One call unhexlify_ascii(request, data, tag, patterns)
CallUnhexlify ==
    /\ pc = "unhexlify_ascii"
    /\ \E writeOk \in BOOLEAN :
         LET r == unhexlify_ascii(files, extracted, loc.data, sample.type,
                                  loc.xresult, writeOk)
         IN  /\ files' = r.files
             /\ extracted' = r.extracted
             /\ call' = HexCall(loc.data, sample.type, writeOk, r)
             /\ pc' = IF r.raised THEN "aborted" ELSE "done"
    /\ UNCHANGED <<solo, sample, result, loc, bu>>

SpecHexCall == InitHexCall /\ [][CallUnhexlify]_vars

\* ------------------------------------------------ claims: unhexlify_ascii

NothingOut ==
    /\ ~call.stored
    /\ ~call.filefound
    /\ call.tags = EmptyTags
    /\ files = {}
    /\ extracted = <<>>

\* C13: in unhexlify_ascii a decode with fewer than 7 distinct bytes yields no
\* artifact and no tags, whatever its length; one longer than 500 bytes with
\* fewer than 20 yields none either; one longer than 500 bytes with 20 or
\* more is persisted (the write succeeding) and neither the matcher nor the
\* XOR cracker is called on it.
C13_EntropyGates ==
    (call.fn = "unhexlify_ascii" /\ call.data.ok) =>
        LET binstr == call.data.data
        IN  /\ binstr.uniq < 7 => (NothingOut /\ ~call.matched /\ ~call.xcalled)
            /\ (binstr.len > 500 /\ binstr.uniq < 20) =>
                  (NothingOut /\ ~call.matched /\ ~call.xcalled)
            /\ (binstr.len > 500 /\ binstr.uniq >= 20) =>
                  /\ ~call.matched
                  /\ ~call.xcalled
                  /\ call.tags = EmptyTags
                  /\ call.writeOk =>
                        /\ call.stored
                        /\ Len(extracted) = 1
                        /\ extracted[1].data = binstr
                        /\ \E f \in files : f.data = binstr
                  /\ ~call.writeOk => (extracted = <<>> /\ files = {})

C13_Witness ==
    /\ call.fn = "unhexlify_ascii"
    /\ call.data.data.len = 501
    /\ call.data.data.uniq = 19
    /\ NothingOut
    /\ pc = "done"

\* The matcher is called on no string, or answers nothing for those it is
\* called on
MatcherFoundNothing(data) == \A st \in data.strs : st.len >= 4 => st.iocs = {}

\* C14: unhexlify_ascii calls the XOR cracker exactly when the decode has 7
\* distinct bytes or more, is 500 bytes long or shorter, the matcher found
\* nothing, the length is in (20, 128] and the type begins with code/; of
\* the hits it answers only the first makes a tag entry, under
\* file.string.blacklisted when its name begins with EXE_ and under its name
\* otherwise.
C14_XorFallback ==
    call.fn = "unhexlify_ascii" =>
        LET binstr == call.data.data
            first == loc.xresult[1]
        IN  /\ call.xcalled <=>
                  /\ call.data.ok
                  /\ binstr.uniq >= 7
                  /\ binstr.len <= 500
                  /\ MatcherFoundNothing(binstr)
                  /\ 20 < binstr.len /\ binstr.len <= 128
                  /\ Len(call.tag) >= 5 /\ SubSeq(call.tag, 1, 5) = <<"c", "o", "d", "e", "/">>
            /\ (call.xcalled /\ loc.xresult = <<>>) => call.tags = EmptyTags
            /\ (call.xcalled /\ loc.xresult # <<>>) =>
                  /\ Cardinality(DOMAIN call.tags) = 1
                  /\ first.regex = "EXE_MZ" =>
                        DOMAIN call.tags = {"file.string.blacklisted"}
                  /\ first.regex = "network.static.domain" =>
                        DOMAIN call.tags = {"network.static.domain"}
                  /\ \A ty \in DOMAIN call.tags :
                        call.tags[ty] = {[data |-> call.data, match |-> first.match,
                                          transform |-> first.transform]}

C14_Witness ==
    /\ call.fn = "unhexlify_ascii"
    /\ call.xcalled
    /\ Len(loc.xresult) = 2
    /\ DOMAIN call.tags = {"network.static.domain"}

\* -------------------------------------------- ioc_to_tag, called on its own

S_long == Str("300 characters", 300, 300,
              {Ioc("network.static.uri", "http://a.example.com/", 21, TRUE, TRUE)})

InitIocCall ==
    /\ solo = TRUE
    /\ pc = "ioc_to_tag"
    /\ sample = NoSample
    /\ loc \in [fn : {"ioc_to_tag"},
                strs : SUBSET {S_ip, S_baddomain, S_short, S_blacklisted,
                               S_plain, S_long},
                check_length : BOOLEAN,
                strs_max_size : {0, 1, 2, 1000000}, st_max_length : {300, 5000}]
    /\ files = {}
    /\ extracted = <<>>
    /\ result = NoResult
    /\ call = NoCall
    /\ bu = BuIdle

\* One call ioc_to_tag(data, patterns, res, taglist=True, check_length,
\* strs_max_size, st_max_length)
CallIocToTag ==
    /\ pc = "ioc_to_tag"
    /\ LET r == ioc_to_tag(loc.strs, loc.check_length, loc.strs_max_size,
                           loc.st_max_length)
       IN  /\ call' = [fn |-> "ioc_to_tag", caller |-> "none",
                       check_length |-> loc.check_length, tags |-> r.tags,
                       calls |-> r.calls]
           /\ result' = [result EXCEPT !.tags = @ \cup r.added]
    /\ pc' = "done"
    /\ UNCHANGED <<solo, sample, files, extracted, loc, bu>>

SpecIocCall == InitIocCall /\ [][CallIocToTag]_vars

\* ----------------------------------------------------- claims: ioc_to_tag

\* The set strs of ioc_to_tag: the strings of ml characters or more, under
\* check_length those shorter than st_max_length
StrsSet ==
    {st \in loc.strs :
        /\ st.len >= (IF loc.check_length THEN StMinLength ELSE MinLengthUnchecked)
        /\ loc.check_length => st.len < loc.st_max_length}

\* C15: in a call of ioc_to_tag, when the set of strings is larger
\* than strs_max_size every call of the matcher is network-only, and when it
\* is not none is.
C15_NetworkOnlyAboveCeiling ==
    (call.fn = "ioc_to_tag" /\ pc = "done") =>
        /\ Cardinality(StrsSet) > loc.strs_max_size =>
              \A c \in call.calls : c.just_network
        /\ ~(Cardinality(StrsSet) > loc.strs_max_size) =>
              \A c \in call.calls : ~c.just_network

\* ------------------------------------ the decoders on the candidate's text

B64Alphabet ==
    <<"A", "B", "C", "D", "E", "F", "G", "H", "I", "J", "K", "L", "M",
      "N", "O", "P", "Q", "R", "S", "T", "U", "V", "W", "X", "Y", "Z",
      "a", "b", "c", "d", "e", "f", "g", "h", "i", "j", "k", "l", "m",
      "n", "o", "p", "q", "r", "s", "t", "u", "v", "w", "x", "y", "z",
      "0", "1", "2", "3", "4", "5", "6", "7", "8", "9", "+", "/">>

B64Index(c) == (CHOOSE i \in 1..Len(B64Alphabet) : B64Alphabet[i] = c) - 1

\* binascii.a2b_base64(b64_string), not strict, on the characters the
\* pattern of base64_results lets through (the alphabet and '='): a '='
\* that completes a quad ends the decoding, any other '=' is skipped, and
\* an incomplete quad at the end of the text is an error
RECURSIVE a2b_base64_loop(_, _, _, _, _, _)
a2b_base64_loop(s, i, quad_pos, leftchar, pads, out) ==
    IF i > Len(s)
    THEN IF quad_pos = 0 THEN [ok |-> TRUE, bytes |-> out]
                         ELSE [ok |-> FALSE, bytes |-> <<>>]
    ELSE IF s[i] = "="
    THEN IF quad_pos >= 2 /\ quad_pos + pads + 1 >= 4
         THEN [ok |-> TRUE, bytes |-> out]
         ELSE a2b_base64_loop(s, i + 1, quad_pos, leftchar,
                              IF quad_pos >= 2 THEN pads + 1 ELSE pads, out)
    ELSE LET c == B64Index(s[i])
         IN  CASE quad_pos = 0 ->
                    a2b_base64_loop(s, i + 1, 1, c, 0, out)
               [] quad_pos = 1 ->
                    a2b_base64_loop(s, i + 1, 2, c % 16, 0,
                                    Append(out, leftchar * 4 + (c \div 16)))
               [] quad_pos = 2 ->
                    a2b_base64_loop(s, i + 1, 3, c % 4, 0,
                                    Append(out, leftchar * 16 + (c \div 4)))
               [] OTHER ->
                    a2b_base64_loop(s, i + 1, 0, 0, 0,
                                    Append(out, leftchar * 64 + c))

a2b_base64(s) == a2b_base64_loop(s, 1, 0, 0, 0, <<>>)

\* b64(): the length test, then the decoding; an error leaves no result
B64Decode(b64_string) ==
    IF Len(b64_string) >= B64MinLen /\ Len(b64_string) % 4 = 0
    THEN a2b_base64(b64_string)
    ELSE [ok |-> FALSE, bytes |-> <<>>]

\* unhexlify_ascii(): data loses its last character when its length is
\* odd ...
EvenPrefix(data) ==
    IF Len(data) % 2 # 0 THEN SubSeq(data, 1, Len(data) - 1) ELSE data

\* ... and is then decoded; an error returns (False, {})
HexDecode(data) == a2b_hex(EvenPrefix(data))

\* The candidates of base64_results: MaxChunks runs of 10 or more
\* characters of the alphabet, each followed by up to two '=' (line
\* breaks, blanks and HTML line feeds are removed before b64 is called)
MaxChunks == 2

B64Bodies ==
    { <<"Q", "U", "J", "D", "R", "E", "V", "G", "R", "0", "h", "J">>,
      <<"Q", "U", "J", "D", "R", "E", "V", "G", "R", "0", "h">>,
      <<"Q", "U", "J", "D", "R", "E", "V", "G", "R", "0", "g">>,
      <<"Q", "U", "J", "D", "R", "E", "V", "G", "R", "0">>,
      <<"Q", "U", "J", "D", "R", "E", "V", "G", "R", "w">> }

B64Texts ==
    LET chunks == {b \o p : b \in B64Bodies,
                            p \in { <<>>, <<"=">>, <<"=", "=">> }}
    IN  {Concat(cs) : cs \in UNION {[1..n -> chunks] : n \in 2..MaxChunks}}

\* The candidates of hex_results: HexMinPairs or more pairs of hexadecimal
\* digits of either case (line breaks are removed before unhexlify_ascii
\* is called); here a fixed run followed by MaxPairs pairs that vary
HexMinPairs == 16

MaxPairs == 2

HexRun == Concat([i \in 1..(HexMinPairs - MaxPairs) |-> <<"3", HexChars[i]>>])

HexTexts ==
    LET pairs == { <<"4", "a">>, <<"4", "A">>, <<"A", "4">>, <<"f", "F">>,
                   <<"0", "0">>, <<"7", "e">> }
    IN  {HexRun \o Concat(ps) : ps \in [1..MaxPairs -> pairs]}

InitCodec ==
    /\ solo = TRUE
    /\ pc = "codec"
    /\ sample = NoSample
    /\ \/ loc \in [fn : {"b64"}, data : B64Texts]
       \/ loc \in [fn : {"unhexlify_ascii"}, data : HexTexts]
    /\ files = {}
    /\ extracted = <<>>
    /\ result = NoResult
    /\ call = NoCall
    /\ bu = BuIdle

\* b64(request, b64_string, patterns) up to base64data
DecodeB64Text ==
    /\ pc = "codec"
    /\ loc.fn = "b64"
    /\ LET r == B64Decode(loc.data)
       IN  call' = [fn |-> "a2b_base64", data |-> loc.data, ok |-> r.ok,
                    bytes |-> r.bytes]
    /\ pc' = "done"
    /\ UNCHANGED <<solo, sample, files, extracted, result, loc, bu>>

\* unhexlify_ascii(request, data, tag, patterns) up to binstr
DecodeHexText ==
    /\ pc = "codec"
    /\ loc.fn = "unhexlify_ascii"
    /\ LET r == HexDecode(loc.data)
       IN  call' = [fn |-> "unhexlify", data |-> loc.data, ok |-> r.ok,
                    bytes |-> r.bytes]
    /\ pc' = "done"
    /\ UNCHANGED <<solo, sample, files, extracted, result, loc, bu>>

NextCodec == DecodeB64Text \/ DecodeHexText

SpecCodec == InitCodec /\ [][NextCodec]_vars

\* ------------------------------------------------------ claims: round trip

\* binascii.b2a_base64(bytes, newline=False): the standard encoding
RECURSIVE b2a_base64(_)
b2a_base64(b) ==
    IF Len(b) = 0 THEN <<>>
    ELSE IF Len(b) = 1
    THEN <<B64Alphabet[(b[1] \div 4) + 1], B64Alphabet[(b[1] % 4) * 16 + 1],
           "=", "=">>
    ELSE IF Len(b) = 2
    THEN <<B64Alphabet[(b[1] \div 4) + 1],
           B64Alphabet[(b[1] % 4) * 16 + (b[2] \div 16) + 1],
           B64Alphabet[(b[2] % 16) * 4 + 1], "=">>
    ELSE <<B64Alphabet[(b[1] \div 4) + 1],
           B64Alphabet[(b[1] % 4) * 16 + (b[2] \div 16) + 1],
           B64Alphabet[(b[2] % 16) * 4 + (b[3] \div 64) + 1],
           B64Alphabet[(b[3] % 64) + 1]>> \o b2a_base64(SubSeq(b, 4, Len(b)))

\* binascii.hexlify(bytes): two lowercase digits a byte
hexlify(b) ==
    Concat([i \in 1..Len(b) |->
               <<HexChars[(b[i] \div 16) + 1], HexChars[(b[i] % 16) + 1]>>])

\* A base64 text in canonical form: '=' only as the one or two last
\* characters, and the bits of the last character of the alphabet that
\* belong to no byte are zero
Pads(s) == Cardinality({i \in 1..Len(s) : s[i] = "="})

CanonicalB64(s) ==
    LET n == Len(s) - Pads(s)
    IN  /\ Pads(s) <= 2
        /\ \A i \in 1..n : s[i] # "="
        /\ Pads(s) = 1 => B64Index(s[n]) % 4 = 0
        /\ Pads(s) = 2 => B64Index(s[n]) % 16 = 0

LowercaseHex(s) ==
    \A i \in 1..Len(s) : \E j \in 1..16 : HexChars[j] = s[i]

DecodedText == pc = "done" /\ call.fn \in {"a2b_base64", "unhexlify"} /\ call.ok

\* C16: for every candidate a decoder decodes, encoding the decoded bytes
\* again (base64, hexadecimal) gives exactly the candidate's text.
C16_RoundTripExact ==
    DecodedText =>
        /\ call.fn = "a2b_base64" => b2a_base64(call.bytes) = call.data
        /\ call.fn = "unhexlify" => hexlify(call.bytes) = call.data

\* C16 as amended: for every candidate a decoder decodes, encoding the
\* decoded bytes again
\* gives exactly the candidate's text if and only if the text is in
\* canonical form (base64: '=' only as final padding and no stray bits in
\* the last character; hexadecimal: no uppercase digit), and decoding the
\* encoded bytes again always gives the same bytes.
C16_RoundTripCanonical ==
    DecodedText =>
        /\ call.fn = "a2b_base64" =>
              /\ b2a_base64(call.bytes) = call.data <=> CanonicalB64(call.data)
              /\ a2b_base64(b2a_base64(call.bytes)).bytes = call.bytes
        /\ call.fn = "unhexlify" =>
              /\ hexlify(call.bytes) = call.data <=> LowercaseHex(call.data)
              /\ a2b_hex(hexlify(call.bytes)).bytes = call.bytes

C16_Witness ==
    /\ DecodedText
    /\ call.fn = "a2b_base64"
    /\ Len(call.bytes) > 0
    /\ ~CanonicalB64(call.data)
    /\ b2a_base64(call.bytes) # call.data

\* --------------------------------------------------------- claims: execute

TooLargeOrArchive ==
    \/ sample.size >= (IF sample.deep_scan THEN DeepMaxSize ELSE ConfigMaxSize)
    \/ StartsWith(sample.type, P_archive)

BelowXorCeiling ==
    sample.size < (IF sample.deep_scan THEN DeepBbMaxSize ELSE ConfigBbMaxSize)

TypeIsCode == StartsWith(sample.type, P_code)

CategoryIsCodeOrExecutable ==
    \E i \in 1..Len(sample.type) :
        /\ sample.type[i] = "/"
        /\ SubSeq(sample.type, 1, i - 1) \in {P_executable, P_code}
        /\ \A j \in 1..(i - 1) : sample.type[j] # "/"

NothingProduced ==
    files = {} /\ extracted = <<>> /\ result = NoResult /\ call = NoCall

\* C17: in execute, a sample of max_size bytes or more, or of a type starting
\* with 'archive/', runs no pipeline and produces no tag and no artifact;
\* for any other sample ascii_results and then embedded_pe_results run;
\* base64_results runs only for a type not starting with 'code',
\* bbcrack_results only if moreover the size is below bb_max_size,
\* unicode_results only for a category other than 'executable' and 'code',
\* hex_results only if moreover the type does not start with
\* 'document/office'.
C17_Eligibility ==
    /\ [](~solo =>
            /\ TooLargeOrArchive =>
                  (pc \in {"start", "done"} /\ NothingProduced)
            /\ pc = "b64" => ~TypeIsCode
            /\ pc = "bbcrack" => (~TypeIsCode /\ BelowXorCeiling)
            /\ pc = "unicode" => ~CategoryIsCodeOrExecutable
            /\ pc = "hex" =>
                  /\ ~CategoryIsCodeOrExecutable
                  /\ ~StartsWith(sample.type, P_office))
    /\ [][~solo =>
            /\ (pc = "start" /\ ~TooLargeOrArchive) => pc' = "ascii"
            /\ pc = "ascii" => pc' = "pe"]_vars

C17_Witness ==
    /\ ~solo
    /\ pc = "hex"
    /\ sample.type = T_pdf
    /\ result.tags # {}

\* C19: in execute the XOR cracker is never called from unhexlify_ascii and
\* hex_results never receives, files or reports an entry made from one of
\* its hits, whatever the type and the size of the sample.
C19_NoXorFallbackInExecute ==
    ~solo =>
        /\ call.fn = "unhexlify_ascii" => (~call.xcalled /\ ~call.xored)
        /\ loc.fn = "hex_results" =>
              loc.asciihex_bb_dict = <<>>
        /\ ~("ASCII HEX AND XOR DECODED IOC Strings:" \in result.sections)

\* Under execute unhexlify_ascii comes to the test of the fallback: a decode
\* of 99 bytes in which the matcher found nothing
C19_Witness ==
    /\ ~solo
    /\ call.fn = "unhexlify_ascii"
    /\ call.matched
    /\ call.tags = EmptyTags
    /\ call.data.data.len > XorMinLen
    /\ call.data.data.len <= XorMaxLen

====
